---- MODULE Spec2Model ----
(***************************************************************************)
(* State-machine model of the AI Operations Dashboard (React components).  *)
(*                                                                         *)
(* Every useState cell of the application is a variable; every event       *)
(* handler is an action.  A handler is enabled exactly when the element    *)
(* that carries it is rendered (CSS stacking is not modelled, so a control *)
(* under the dialog overlay can still be activated, e.g. by keyboard).     *)
(* KPICards, MainCharts and DataTable are children of DashboardContent and *)
(* are rendered only while selectedView = 'Overview'; leaving that view    *)
(* unmounts them and destroys their state, and returning mounts them with  *)
(* fresh useState initial values.  While they are unmounted their          *)
(* variables hold those initial values.                                    *)
(*                                                                         *)
(* Fields of a transaction that no handler reads (driver, station, liters, *)
(* price, details' contents) are kept only as far as a claim refers to     *)
(* them; decimals are stored in tenths.                                    *)
(***************************************************************************)
EXTENDS Integers, Sequences, FiniteSets, TLC

VARIABLES
    selectedView,   \* App.tsx:8
    environment,    \* App.tsx:9
    savedOffers,    \* SmartFuelRecommender, part_001:41
    selectedKPI,    \* KPICards, DataTable.tsx:321
    period,         \* MainCharts, part_002:77
    expandedRows,   \* DataTable.tsx:85
    dateRange,      \* DataTable.tsx:86
    region,         \* DataTable.tsx:87
    riskFilter,     \* DataTable.tsx:88
    transactions,   \* the catalog the table reads, DataTable.tsx:23
    auditLog        \* console.log lines written by markAsReviewed, DataTable.tsx:102

vars == <<selectedView, environment, savedOffers, selectedKPI, period,
          expandedRows, dateRange, region, riskFilter, transactions, auditLog>>

\* Longest audit log explored.
MaxAudit == 2

\* JavaScript null (useState<string | null>(null)).
null == "<null>"

Range(s) == {s[i] : i \in 1..Len(s)}

----------------------------------------------------------------------------
(* Static catalogs *)

mockTransactions ==
    << [id |-> "1", time |-> "14:32", card |-> "****1234", liters10 |-> 452,
        price |-> 2850, deviation10 |-> 125, risk |-> "High",
        reviewed |-> FALSE, hasDetails |-> TRUE],
       [id |-> "2", time |-> "13:15", card |-> "****5678", liters10 |-> 387,
        price |-> 2450, deviation10 |-> -21, risk |-> "Low",
        reviewed |-> TRUE, hasDetails |-> FALSE],
       [id |-> "3", time |-> "12:45", card |-> "****9012", liters10 |-> 523,
        price |-> 3100, deviation10 |-> 183, risk |-> "High",
        reviewed |-> FALSE, hasDetails |-> TRUE] >>

topStations ==
    << [id |-> 1, price100 |-> 4850, savings10 |-> 82],
       [id |-> 2, price100 |-> 4920, savings10 |-> 65],
       [id |-> 3, price100 |-> 4780, savings10 |-> 91] >>

kpis ==
    << [id |-> "revenue",        title |-> "Total Revenue"],
       [id |-> "transactions",   title |-> "Transactions"],
       [id |-> "anomalies",      title |-> "Anomalies"],
       [id |-> "active_drivers", title |-> "Active Drivers"] >>

chartData ==
    << [date |-> "Mon", volume |-> 1200, revenue |-> 2400, margin |-> 1800],
       [date |-> "Tue", volume |-> 1900, revenue |-> 3800, margin |-> 2900],
       [date |-> "Wed", volume |-> 1500, revenue |-> 3000, margin |-> 2200],
       [date |-> "Thu", volume |-> 2100, revenue |-> 4200, margin |-> 3200],
       [date |-> "Fri", volume |-> 1800, revenue |-> 3600, margin |-> 2700],
       [date |-> "Sat", volume |-> 1600, revenue |-> 3200, margin |-> 2400],
       [date |-> "Sun", volume |-> 1400, revenue |-> 2800, margin |-> 2100] >>

menuItems == <<"Overview", "KPIs", "Fraud", "Recommender", "Fleets", "Settings">>

\* The <option> lists.  An <option> without a value attribute has its text
\* as value, which is what e.target.value delivers to onChange.
dateRangeOptions == <<"Today", "Last 7 days", "Last 30 days", "Custom range">>
regionOptions    == <<"All Regions", "Moscow", "St. Petersburg", "Kazan">>
riskOptions      == <<"All Risk Levels", "Low", "Medium", "High">>
periodOptions    == <<"Day", "Week", "Month">>
environmentOptions == <<"Prod", "Pilot">>

----------------------------------------------------------------------------
(* Pure functions *)

\* DashboardContent renders the three dashboard components only for 'Overview'.
MountedOrKPIs(view) == view \in {"Overview", "KPIs"}
Mounted(view) == view = "Overview"

\* The filter callback of filteredTransactions: TRUE iff t is kept.
riskPredicateInverted(t, rf) == ~(rf # "All" /\ t.risk = rf)
riskPredicateLabel(t, rf) == ~(rf # "All Risk Levels" /\ t.risk # rf)
riskPredicate(t, rf) == ~(rf # "All" /\ t.risk # rf)

\* Array.prototype.filter: the kept elements, in order.
RECURSIVE filterSeq(_, _)
filterSeq(T, rf) ==
    IF T = <<>> THEN <<>>
    ELSE IF riskPredicate(Head(T), rf)
         THEN <<Head(T)>> \o filterSeq(Tail(T), rf)
         ELSE filterSeq(Tail(T), rf)

filteredTransactions(T, rf) == filterSeq(T, rf)

\* Set toggle of toggleRow: copy, delete if present, else add.
toggleRowAddOnly(S, id) == S \cup {id}
toggleRow(S, id) == IF id \in S THEN S \ {id} ELSE S \cup {id}

\* Set toggle of toggleSave.
toggleSaveAddOnly(S, id) == S \cup {id}
toggleSave(S, id) == IF id \in S THEN S \ {id} ELSE S \cup {id}

\* Effect of markAsReviewed on the catalog: it logs and alerts, and assigns
\* to no transaction.
markAsReviewed(T, id) == T

\* The line markAsReviewed writes to the console, identified by the id in it.
auditEntry(id) == id

\* console.log: the line is written after all earlier lines.
consoleLogPrepend(log, entry) == <<entry>> \o log
consoleLog(log, entry) == Append(log, entry)

\* What DashboardContent renders for a view: for every view but 'Overview'
\* a heading with the view id and the text 'Content for <id> view', else the
\* three dashboard components.  It has no other branch and throws nothing.
DashboardContent(view) ==
    IF ~Mounted(view)
    THEN [kind |-> "placeholder", heading |-> view, subject |-> view]
    ELSE [kind |-> "dashboard", heading |-> "", subject |-> ""]

\* The data prop MainCharts hands to LineChart while `p` is the period.
LineChartDataByPeriod(p) ==
    IF p = "Day" THEN SubSeq(chartData, 1, 1) ELSE chartData
LineChartData(p) == chartData

\* The option a controlled <select> shows: the one whose value equals the
\* state, else the first option.
ShownOption(options, value) ==
    IF value \in Range(options) THEN value ELSE options[1]

----------------------------------------------------------------------------
(* Event propagation *)

\* The dialog surface's onClick calls e.stopPropagation().
SurfaceLetsPropagate == FALSE
SurfaceStopsPropagation == TRUE

\* The 'Mark as reviewed' button's onClick calls e.stopPropagation() first.
MarkButtonLetsPropagate == FALSE
MarkButtonStopsPropagation == TRUE

\* The elements a click on `target` reaches while bubbling, innermost first:
\* the Close button lies in the surface, the surface in the overlay.
DialogPath(target) ==
    CASE target = "closeButton" -> <<"closeButton", "surface", "overlay">>
      [] target = "surface"     -> <<"surface", "overlay">>
      [] target = "overlay"     -> <<"overlay">>

DialogTargets == {"closeButton", "surface", "overlay"}

\* selectedKPI after the onClick handlers along `path` have run on `cur`:
\* overlay and Close button call setSelectedKPI(null), the surface stops the
\* event.
RECURSIVE DialogDispatch(_, _)
DialogDispatch(path, cur) ==
    IF path = <<>> THEN cur
    ELSE IF Head(path) = "surface"
         THEN IF SurfaceStopsPropagation THEN cur
              ELSE DialogDispatch(Tail(path), cur)
         ELSE DialogDispatch(Tail(path), null)

\* `selectedKPI && (...)`: the dialog is rendered for a truthy value.
DialogRendered(kpi) == kpi # null /\ kpi # ""

\* The argument each rendered element hands to its handler.
RowClickArgTime(t) == t.time
RowClickArg(t) == t.id
KpiClickArgTitle(k) == k.title
KpiClickArg(k) == k.id
SaveClickArg(s) == s.id

----------------------------------------------------------------------------
(* Initial state: the useState initial values *)

InitExpandedRows == {}
InitDateRange    == "Today"
InitRegion       == "All"
InitRiskFilter   == "All"
InitSelectedKPI  == null
InitPeriod       == "Week"

Init ==
    /\ selectedView = "Overview"
    /\ environment = "Prod"
    /\ savedOffers = {}
    /\ selectedKPI = InitSelectedKPI
    /\ period = InitPeriod
    /\ expandedRows = InitExpandedRows
    /\ dateRange = InitDateRange
    /\ region = InitRegion
    /\ riskFilter = InitRiskFilter
    /\ transactions = mockTransactions
    /\ auditLog = <<>>

----------------------------------------------------------------------------
(* Actions: one per event handler *)

\* Sidebar button: setSelectedView(item.id).  DashboardContent then renders
\* the dashboard components or the placeholder.
SelectView(v) ==
    /\ selectedView' = v
    /\ IF Mounted(selectedView) /\ Mounted(v)
       THEN UNCHANGED <<selectedKPI, period, expandedRows, dateRange, region, riskFilter>>
       ELSE /\ selectedKPI' = InitSelectedKPI
            /\ period' = InitPeriod
            /\ expandedRows' = InitExpandedRows
            /\ dateRange' = InitDateRange
            /\ region' = InitRegion
            /\ riskFilter' = InitRiskFilter
    /\ UNCHANGED <<environment, savedOffers, transactions, auditLog>>

\* Header buttons: setEnvironment('Prod' | 'Pilot').
SetEnvironment(env) ==
    /\ environment' = env
    /\ UNCHANGED <<selectedView, savedOffers, selectedKPI, period, expandedRows,
                   dateRange, region, riskFilter, transactions, auditLog>>

\* Bookmark button of a station: toggleSave(station.id).
ToggleSaveClosing(s) ==
    /\ savedOffers' = toggleSave(savedOffers, SaveClickArg(s))
    /\ selectedKPI' = null
    /\ UNCHANGED <<selectedView, environment, period, expandedRows,
                   dateRange, region, riskFilter, transactions, auditLog>>
ToggleSave(s) ==
    /\ savedOffers' = toggleSave(savedOffers, SaveClickArg(s))
    /\ UNCHANGED <<selectedView, environment, selectedKPI, period, expandedRows,
                   dateRange, region, riskFilter, transactions, auditLog>>

\* KPI card: setSelectedKPI(kpi.id).
SelectKPICard(k) ==
    /\ Mounted(selectedView)
    /\ selectedKPI' = KpiClickArg(k)
    /\ UNCHANGED <<selectedView, environment, savedOffers, period, expandedRows,
                   dateRange, region, riskFilter, transactions, auditLog>>

\* A click on the overlay, the dialog surface or the Close button.
DialogClick(target) ==
    /\ Mounted(selectedView)
    /\ DialogRendered(selectedKPI)
    /\ selectedKPI' = DialogDispatch(DialogPath(target), selectedKPI)
    /\ UNCHANGED <<selectedView, environment, savedOffers, period, expandedRows,
                   dateRange, region, riskFilter, transactions, auditLog>>

\* Period buttons: setPeriod(p).
SetPeriod(p) ==
    /\ Mounted(selectedView)
    /\ period' = p
    /\ UNCHANGED <<selectedView, environment, savedOffers, selectedKPI, expandedRows,
                   dateRange, region, riskFilter, transactions, auditLog>>

\* The three selects: onChange fires when the user picks an option other
\* than the one shown, with the option's value.
SetDateRange(v) ==
    /\ Mounted(selectedView)
    /\ v # ShownOption(dateRangeOptions, dateRange)
    /\ dateRange' = v
    /\ UNCHANGED <<selectedView, environment, savedOffers, selectedKPI, period,
                   expandedRows, region, riskFilter, transactions, auditLog>>

SetRegion(v) ==
    /\ Mounted(selectedView)
    /\ v # ShownOption(regionOptions, region)
    /\ region' = v
    /\ UNCHANGED <<selectedView, environment, savedOffers, selectedKPI, period,
                   expandedRows, dateRange, riskFilter, transactions, auditLog>>

SetRiskFilter(v) ==
    /\ Mounted(selectedView)
    /\ v # ShownOption(riskOptions, riskFilter)
    /\ riskFilter' = v
    /\ UNCHANGED <<selectedView, environment, savedOffers, selectedKPI, period,
                   expandedRows, dateRange, region, transactions, auditLog>>

\* The rows the table renders.
DisplayedRowsByRegion ==
    IF region \in {"All", "All Regions"}
    THEN filteredTransactions(transactions, riskFilter)
    ELSE <<>>
DisplayedRows == filteredTransactions(transactions, riskFilter)

\* A click on a rendered row (outside its button): toggleRow(transaction.id).
ClickRow(t) ==
    /\ Mounted(selectedView)
    /\ t \in Range(DisplayedRows)
    /\ expandedRows' = toggleRow(expandedRows, RowClickArg(t))
    /\ UNCHANGED <<selectedView, environment, savedOffers, selectedKPI, period,
                   dateRange, region, riskFilter, transactions, auditLog>>

\* A click on the 'Mark as reviewed' button, rendered for a row that is not
\* reviewed: stopPropagation, then markAsReviewed(transaction.id); unless
\* stopped, the click bubbles to the row's onClick.
ClickMarkAsReviewed(t) ==
    /\ Mounted(selectedView)
    /\ t \in Range(DisplayedRows)
    /\ ~t.reviewed
    /\ Len(auditLog) < MaxAudit
    /\ auditLog' = consoleLog(auditLog, auditEntry(t.id))
    /\ transactions' = markAsReviewed(transactions, t.id)
    /\ expandedRows' = IF MarkButtonStopsPropagation THEN expandedRows
                       ELSE toggleRow(expandedRows, RowClickArg(t))
    /\ UNCHANGED <<selectedView, environment, savedOffers, selectedKPI, period,
                   dateRange, region, riskFilter>>

\* The handlers whose state some other handler or the renderer reads.
NextCore ==
    \/ \E v \in Range(menuItems) : SelectView(v)
    \/ \E s \in Range(topStations) : ToggleSave(s)
    \/ \E k \in Range(kpis) : SelectKPICard(k)
    \/ \E target \in DialogTargets : DialogClick(target)
    \/ \E v \in Range(riskOptions) : SetRiskFilter(v)
    \/ \E t \in Range(transactions) : ClickRow(t)
    \/ \E t \in Range(transactions) : ClickMarkAsReviewed(t)

\* The setters of the cells that only their own control reads.
NextFrame ==
    \/ \E env \in Range(environmentOptions) : SetEnvironment(env)
    \/ \E p \in Range(periodOptions) : SetPeriod(p)
    \/ \E v \in Range(dateRangeOptions) : SetDateRange(v)
    \/ \E v \in Range(regionOptions) : SetRegion(v)

Next == NextCore \/ NextFrame

\* The whole application.
Spec == Init /\ [][Next]_vars

\* The application with environment, period, dateRange and region left at
\* their initial values: no handler of NextCore reads or writes them, except
\* that an unmount resets the three of the dashboard.
SpecCore == Init /\ [][NextCore]_vars

\* The application without the audit output: every cell of ViewState and
\* every handler that writes one.
NextView ==
    \/ \E v \in Range(menuItems) : SelectView(v)
    \/ \E s \in Range(topStations) : ToggleSave(s)
    \/ \E k \in Range(kpis) : SelectKPICard(k)
    \/ \E target \in DialogTargets : DialogClick(target)
    \/ \E v \in Range(riskOptions) : SetRiskFilter(v)
    \/ \E t \in Range(transactions) : ClickRow(t)
    \/ NextFrame

SpecView == Init /\ [][NextView]_vars

----------------------------------------------------------------------------
(* Properties *)

TransactionIds == {transactions[i].id : i \in 1..Len(transactions)}
StationIds == {topStations[i].id : i \in 1..Len(topStations)}
KpiIds == {kpis[i].id : i \in 1..Len(kpis)}
Ids(rows) == [i \in 1..Len(rows) |-> rows[i].id]
DialogOpen == DialogRendered(selectedKPI)

\* The fields of ViewState (spec section 3), in the order of the spec.
viewState == <<selectedView, environment, period, dateRange, region, riskFilter,
               expandedRows, savedOffers, selectedKPI>>

\* D is the subsequence of T made of exactly the elements whose risk is R:
\* some strictly increasing map of D's positions onto those positions of T.
IsRiskSubsequence(D, T, R) ==
    LET keep == {j \in 1..Len(T) : T[j].risk = R}
    IN  \E f \in [1..Len(D) -> 1..Len(T)] :
            /\ \A i, j \in 1..Len(D) : i < j => f[i] < f[j]
            /\ {f[i] : i \in 1..Len(D)} = keep
            /\ \A i \in 1..Len(D) : D[i] = T[f[i]]

\* C1: with the risk filter at Low, Medium or High the table shows exactly
\* the catalog's transactions of that risk, in catalog order; on the sample
\* catalog High shows ids 1 and 3 (both with deviation above 10%).
C1_FilterByRisk ==
    (Mounted(selectedView) /\ riskFilter \in {"Low", "Medium", "High"}) =>
        /\ IsRiskSubsequence(DisplayedRows, transactions, riskFilter)
        /\ riskFilter = "High" =>
              /\ Ids(DisplayedRows) = <<"1", "3">>
              /\ \A i \in 1..Len(DisplayedRows) : DisplayedRows[i].deviation10 > 100

C1_Witness ==
    /\ Mounted(selectedView)
    /\ riskFilter = "High"
    /\ Ids(DisplayedRows) = <<"1", "3">>
    /\ expandedRows = {"1", "3"}

\* C2: once markAsReviewed has been invoked for a transaction (its id is in
\* the audit log), that transaction's reviewed field is true.
C2_ReviewedAfterMark ==
    \A i \in 1..Len(transactions) :
        transactions[i].id \in Range(auditLog) => transactions[i].reviewed

\* C3: with the risk filter at the sentinel 'All' the table shows the whole
\* catalog, unchanged and in catalog order.
C3_AllIsIdentity ==
    (Mounted(selectedView) /\ riskFilter = "All") =>
        /\ DisplayedRows = transactions
        /\ Ids(DisplayedRows) = <<"1", "2", "3">>

C3_Witness ==
    /\ Mounted(selectedView)
    /\ riskFilter = "All"
    /\ expandedRows = {"1", "2", "3"}
    /\ Len(auditLog) = MaxAudit

\* C4: the dialog starts Closed; it goes from Closed to Open only by a KPI
\* card selection; from Open the Close button and a click on the overlay
\* close it, and a click inside the surface leaves it as it is.
C4_DialogLifecycle ==
    /\ ~DialogOpen
    /\ [][ /\ (~DialogOpen /\ DialogRendered(selectedKPI')) =>
                  \E k \in Range(kpis) : SelectKPICard(k) /\ selectedKPI' = k.id
           /\ (DialogClick("closeButton") \/ DialogClick("overlay")) =>
                  selectedKPI' = null
           /\ DialogClick("surface") => selectedKPI' = selectedKPI
         ]_vars

C4_Witness ==
    /\ Mounted(selectedView)
    /\ DialogOpen
    /\ selectedKPI = "transactions"

\* C5: a row click toggles the row's id (adds it if absent, removes it if
\* present, touches no other id), and toggling the same id once more gives
\* back the set of before; in every state, toggling any id twice is the
\* identity.
C5_ToggleRowInvolution ==
    [][ /\ \A id \in TransactionIds :
              toggleRow(toggleRow(expandedRows, id), id) = expandedRows
        /\ \A t \in Range(transactions) : ClickRow(t) =>
              /\ (t.id \in expandedRows') <=> (t.id \notin expandedRows)
              /\ expandedRows' \ {t.id} = expandedRows \ {t.id}
              /\ toggleRow(expandedRows', t.id) = expandedRows
      ]_vars

C5_Witness ==
    /\ Mounted(selectedView)
    /\ expandedRows = {"2", "3"}

\* C6: a bookmark click toggles the station's id, and toggling the same id
\* once more gives back the set of before; from the empty set, station 1
\* toggled twice leaves the set empty.
C6_ToggleSaveInvolution ==
    [][ /\ \A id \in StationIds :
              toggleSave(toggleSave(savedOffers, id), id) = savedOffers
        /\ \A s \in Range(topStations) : ToggleSave(s) =>
              /\ (s.id \in savedOffers') <=> (s.id \notin savedOffers)
              /\ savedOffers' \ {s.id} = savedOffers \ {s.id}
              /\ toggleSave(savedOffers', s.id) = savedOffers
              /\ (s.id = 1 /\ savedOffers = {}) => savedOffers' = {1}
              /\ (s.id = 1 /\ savedOffers = {1}) => savedOffers' = {}
      ]_vars

C6_Witness == savedOffers = {1}

\* C7: expandedRows holds only ids of transactions of the catalog.
C7_ExpandedInCatalog == expandedRows \subseteq TransactionIds

C7_Witness ==
    /\ Mounted(selectedView)
    /\ expandedRows = {"1", "2", "3"}
    /\ riskFilter = "Medium"

\* C8: selectedKPI is null or the id of one of the four KPI entries.
C8_DialogIdIsKpi ==
    /\ KpiIds = {"revenue", "transactions", "anomalies", "active_drivers"}
    /\ selectedKPI = null \/ selectedKPI \in KpiIds

C8_Witness == selectedKPI = "active_drivers"

\* C9: a 'Mark as reviewed' click for a transaction that was marked before
\* changes no field of any transaction and no field of ViewState.
C9_MarkAgainChangesNothing ==
    [][ \A t \in Range(transactions) :
            (ClickMarkAsReviewed(t) /\ auditEntry(t.id) \in Range(auditLog)) =>
                /\ transactions' = transactions
                /\ viewState' = viewState
      ]_vars

C9_Witness == auditLog = <<"3", "3">>

\* C10: while the dialog is open for 'revenue', a row click or a bookmark
\* click leaves it open for 'revenue', and the Close button closes it.
C10_TogglesKeepDialog ==
    [][ /\ ( /\ selectedKPI = "revenue"
             /\ \/ \E t \in Range(transactions) : ClickRow(t)
                \/ \E s \in Range(topStations) : ToggleSave(s) )
           => selectedKPI' = "revenue"
        /\ (selectedKPI = "revenue" /\ DialogClick("closeButton"))
           => selectedKPI' = null
      ]_vars

C10_Witness ==
    /\ selectedKPI = "revenue"
    /\ expandedRows = {"1", "2", "3"}
    /\ savedOffers = {1, 2, 3}

\* View ids the sidebar offers, and two it does not.
ViewIdSamples == Range(menuItems) \cup {"Unknown", ""}

\* C11: selecting a view is always possible and sets selectedView to the
\* selected id; for every id other than 'Overview', also one the sidebar
\* does not know, the content area is the placeholder for that id.
C11_SelectViewTotal ==
    /\ [](\A v \in Range(menuItems) : ENABLED SelectView(v))
    /\ [][ /\ \A v \in Range(menuItems) : SelectView(v) =>
                  /\ selectedView' = v
                  /\ v # "Overview" =>
                        DashboardContent(selectedView') =
                            [kind |-> "placeholder", heading |-> v, subject |-> v]
           /\ \A v \in ViewIdSamples \ {"Overview"} :
                  /\ DashboardContent(v).kind = "placeholder"
                  /\ DashboardContent(v).heading = v
         ]_vars

C11_Witness ==
    /\ selectedView = "Fraud"
    /\ DashboardContent(selectedView).kind = "placeholder"
    /\ DashboardContent(selectedView).heading = "Fraud"

\* C12: a change of dateRange or of region leaves the rows of the table as
\* they are, and the rows are those the risk filter alone selects from the
\* catalog.
C12_DateAndRegionDoNotFilter ==
    [][ /\ ( \/ \E v \in Range(dateRangeOptions) : SetDateRange(v)
             \/ \E v \in Range(regionOptions) : SetRegion(v) )
           => (DisplayedRows' = DisplayedRows /\ riskFilter' = riskFilter)
        /\ Ids(DisplayedRows) =
              CASE riskFilter = "All"  -> <<"1", "2", "3">>
                [] riskFilter = "High" -> <<"1", "3">>
                [] riskFilter = "Low"  -> <<"2">>
                [] OTHER               -> <<>>
      ]_vars

C12_Witness ==
    /\ Mounted(selectedView)
    /\ riskFilter = "High"
    /\ dateRange = "Last 30 days"
    /\ region = "Kazan"
    /\ Ids(DisplayedRows) = <<"1", "3">>

\* s is an initial segment of t.
IsPrefix(s, t) == Len(s) <= Len(t) /\ SubSeq(t, 1, Len(s)) = s

\* C13: every markAsReviewed call appends exactly one record, for its id,
\* after all records written before, and no step removes or reorders
\* records: the log of before is an initial segment of the log of after.
C13_AuditAppendOnly ==
    [][ /\ IsPrefix(auditLog, auditLog')
        /\ \A t \in Range(transactions) : ClickMarkAsReviewed(t) =>
              /\ Len(auditLog') = Len(auditLog) + 1
              /\ auditLog'[Len(auditLog')] = t.id
      ]_vars

C13_Witness == auditLog = <<"1", "3">>

\* Ids that no entry of the transaction catalog or of the station catalog has.
UnknownRowIds == {"0", "4"}
UnknownStationIds == {0, 4}

C15_PeriodIsCosmetic ==
    /\ period = "Week"
    /\ [][ /\ period \in {"Day", "Week", "Month"}
           /\ period' \in {"Day", "Week", "Month"}
           /\ \A p \in Range(periodOptions) : SetPeriod(p) =>
                  /\ period' = p
                  /\ UNCHANGED <<selectedView, environment, savedOffers, selectedKPI,
                                 expandedRows, dateRange, region, riskFilter,
                                 transactions, auditLog>>
           /\ LineChartData(period') = LineChartData(period)
           /\ Len(LineChartData(period')) = 7
           /\ [i \in 1..7 |-> LineChartData(period')[i].date] =
                  <<"Mon", "Tue", "Wed", "Thu", "Fri", "Sat", "Sun">>
         ]_vars

C15_Witness ==
    /\ Mounted(selectedView)
    /\ period = "Day"
    /\ Len(LineChartData(period)) = 7

\* C16: whenever the risk dropdown shows 'All Risk Levels', the table lists
\* every transaction of the catalog.
C16_AllLevelsShowsAll ==
    (Mounted(selectedView) /\ ShownOption(riskOptions, riskFilter) = "All Risk Levels")
        => DisplayedRows = transactions

\* C17: a view selection changes selectedView only, so the other cells are
\* after it what they were before it.
C17_SelectViewFrame ==
    [][ \A v \in Range(menuItems) : SelectView(v) =>
            UNCHANGED <<expandedRows, riskFilter, dateRange, region, period,
                        savedOffers, environment>>
      ]_vars

====
